---- MODULE Spec2Model ----
(***************************************************************************)
(* Virtual model asset resolver of the bilingual reader.                   *)
(*                                                                         *)
(* The model covers the three responders for requests under the reserved   *)
(* prefix (the window.fetch override of the page, the service worker's     *)
(* serveCustomModel, the dev-server plugin customModelNotFoundPlugin) and  *)
(* the asset store they read: the React state customModelFiles, the        *)
(* process-wide reference __CUSTOM_MODEL_FILES__, the Cache API cache      *)
(* 'custom-model-cache-v1' and the IndexedDB record 'current_custom_model'.*)
(*                                                                         *)
(* Strings are TLA+ strings; the JavaScript string methods used by the     *)
(* code (includes, endsWith, startsWith, split, toLowerCase) are computed  *)
(* character by character.                                                 *)
(***************************************************************************)
EXTENDS Integers, Sequences, FiniteSets, TLC

\* ------------------------------------------------------------------------
\* Bounds
\* ------------------------------------------------------------------------
\* longest bag drawn as input of the resolution specification
MaxBagLen == 3
\* longest bag a user upload installs in the store specification
MaxUploadLen == 1
\* number of uploads in one behaviour of the store specification
MaxUploads == 2
\* number of saveFiles tasks in flight at once
MaxTasks == 2
\* loadOfflineModel calls in flight at a time
MaxLoads == 2

\* ------------------------------------------------------------------------
\* JavaScript string methods
\* ------------------------------------------------------------------------
StartsWith(s, p) == Len(p) <= Len(s) /\ SubSeq(s, 1, Len(p)) = p

EndsWith(s, p) == Len(p) <= Len(s) /\ SubSeq(s, Len(s) - Len(p) + 1, Len(s)) = p

OccursAt(s, p, i) == i + Len(p) - 1 <= Len(s) /\ SubSeq(s, i, i + Len(p) - 1) = p

\* position of the first occurrence of p in s at or after i, 0 when there is none
RECURSIVE IndexFrom(_, _, _)
IndexFrom(s, p, i) ==
    IF i + Len(p) - 1 > Len(s) THEN 0
    ELSE IF OccursAt(s, p, i) THEN i
    ELSE IndexFrom(s, p, i + 1)

IndexOf(s, p) == IndexFrom(s, p, 1)

Includes(s, p) == IndexOf(s, p) # 0

\* s.split(sep): the parts of s between the occurrences of sep, found left to right
RECURSIVE Split(_, _)
Split(s, sep) ==
    LET i == IndexOf(s, sep)
    IN  IF i = 0
        THEN <<s>>
        ELSE <<SubSeq(s, 1, i - 1)>> \o Split(SubSeq(s, i + Len(sep), Len(s)), sep)

LastPart(parts) == parts[Len(parts)]

UpperChars == "ABCDEFGHIJKLMNOPQRSTUVWXYZ"
LowerChars == "abcdefghijklmnopqrstuvwxyz"

LowerTable ==
    [c \in { SubSeq(UpperChars, i, i) : i \in 1..26 } |->
        LET i == CHOOSE j \in 1..26 : SubSeq(UpperChars, j, j) = c
        IN  SubSeq(LowerChars, i, i)]

LowerChar(c) == IF c \in DOMAIN LowerTable THEN LowerTable[c] ELSE c

RECURSIVE ToLowerCase(_)
ToLowerCase(s) ==
    IF Len(s) = 0 THEN ""
    ELSE LowerChar(SubSeq(s, 1, 1)) \o ToLowerCase(SubSeq(s, 2, Len(s)))

\* ------------------------------------------------------------------------
\* Request normalisation of the three responders
\* ------------------------------------------------------------------------
\* the reserved virtual path prefix and the key prefix of the shared cache
PREFIX == "/custom-model/"
CACHE_PREFIX == "/custom-model-files/"
\* origin of the page and of the worker
Origin == "h://a"

\* window.fetch override
WindowIntercepts(url) == Includes(url, PREFIX)

\* variant: the query suffix is kept
cleanUrl_KeepQuery(url) == url

cleanUrl(url) == Split(url, "?")[1]

filenameWithPossiblyPath(url) == LastPart(Split(cleanUrl(url), PREFIX))

\* split('/').pop() || ''
filenameOnly(url) == LastPart(Split(filenameWithPossiblyPath(url), "/"))

\* sw.js: new URL(event.request.url).pathname
Pathname(url) ==
    Split(Split(SubSeq(url, Len(Origin) + 1, Len(url)), "?")[1], "#")[1]

SwIntercepts(url) == Includes(Pathname(url), PREFIX)

cleanPathname(pathname) == Split(pathname, "?")[1]

relativePath(pathname) == LastPart(Split(cleanPathname(pathname), PREFIX))

\* relativePath.split('/').pop() || relativePath
swFilenameOnly(pathname) ==
    LET popped == LastPart(Split(relativePath(pathname), "/"))
    IN  IF popped = "" THEN relativePath(pathname) ELSE popped

\* vite.config.ts: req.url is the request target (path and query) the server receives
rawUrl(url) == Split(SubSeq(url, Len(Origin) + 1, Len(url)), "#")[1]

\* variant: only the bare '/custom-model' path is intercepted
PluginIntercepts_ExactOnly(url) == Split(rawUrl(url), "?")[1] = "/custom-model"

PluginIntercepts(url) ==
    LET u == Split(rawUrl(url), "?")[1]
    IN  u = "/custom-model" \/ StartsWith(u, "/custom-model/")

\* a cached request is keyed by its absolute URL
CacheUrl(path) == Origin \o path

\* request URLs (absolute); the inference library asks for
\* localModelPath + 'custom-model' + '/' + filename
Url(target) == Origin \o target

RequestUrls ==
    { Url("/custom-model/config.json"),
      Url("/custom-model/config.json?v=3"),
      Url("/custom-model/tokenizer.json"),
      Url("/custom-model/encoder_model.onnx"),
      Url("/custom-model/onnx/Encoder_model_quantized.onnx"),
      Url("/custom-model/onnx/decoder_model_merged_quantized.onnx"),
      Url("/custom-model/decoder_with_past.onnx"),
      Url("/custom-model/some/path/model.onnx"),
      Url("/custom-model/model_merged.onnx"),
      Url("/custom-model/weights.onnx"),
      Url("/custom-model/weights.onnx?download=1"),
      Url("/custom-model/encoder_config.json"),
      Url("/app/custom-model/config.json"),
      Url("/custom-model"),
      Url("/viewer.html?src=/custom-model/model.onnx"),
      Url("/index.html") }

\* request URLs issued in the store specification
StoreUrls == { Url("/custom-model/config.json"), Url("/index.html") }

\* the normalisation of every request URL of the model, computed once
Normalised ==
    [url \in RequestUrls \cup StoreUrls |->
        [windowIntercepts |-> WindowIntercepts(url),
         filenameWithPossiblyPath |-> filenameWithPossiblyPath(url),
         filenameOnly |-> filenameOnly(url),
         swIntercepts |-> SwIntercepts(url),
         relativePath |-> relativePath(Pathname(url)),
         swFilenameOnly |-> swFilenameOnly(Pathname(url)),
         relativeKey |-> CacheUrl(CACHE_PREFIX \o relativePath(Pathname(url))),
         filenameKey |-> CacheUrl(CACHE_PREFIX \o swFilenameOnly(Pathname(url))),
         pluginIntercepts |-> PluginIntercepts(url)]]

\* ------------------------------------------------------------------------
\* Names, blobs and bags
\* ------------------------------------------------------------------------
\* file names a user uploads (File.name never contains '/')
FileNames ==
    { "config.json", "encoder_model.onnx", "decoder_model.onnx",
      "model_merged.onnx", "model.onnx" }

\* file names uploaded in the store specification
UploadNames == { "config.json", "model.onnx" }

\* file names of the bags of the manifest specification
ManifestNames ==
    { "config.json", "tokenizer.json", "generation_config.json",
      "model.onnx", "encoder_model.onnx", "decoder_model.onnx" }

\* the file names the readiness checklist asks for
RequiredNames == { "encoder_model.onnx", "decoder_model_merged.onnx", "model.onnx", ".onnx" }

AllNames == FileNames \cup ManifestNames

\* the URL under which saveFiles caches the file name
KeyUrl == [name \in AllNames |-> CacheUrl(CACHE_PREFIX \o name)]

IsOnnx(k) == EndsWith(k, ".onnx")
IsJson(k) == EndsWith(k, ".json")
HasWord(k, w) == Includes(ToLowerCase(k), w)

\* what the matching tests of every key and requested file name of the model, computed once
KeyFacts ==
    [k \in AllNames \cup RequiredNames \cup { KeyUrl[n] : n \in AllNames }
           \cup { Normalised[u].filenameOnly : u \in DOMAIN Normalised }
           \cup { Normalised[u].swFilenameOnly : u \in DOMAIN Normalised } |->
        [onnx |-> IsOnnx(k),
         json |-> IsJson(k),
         encoder |-> HasWord(k, "encoder"),
         decoder |-> HasWord(k, "decoder"),
         merged |-> HasWord(k, "merged"),
         lower |-> ToLowerCase(k)]]

\* File.type as the browser derives it from the extension
FileType(name) == IF KeyFacts[name].json THEN "application/json" ELSE ""

\* a File: its name, the upload it came from, its declared type
Blob(name, gen) == [name |-> name, gen |-> gen, type |-> FileType(name)]
NoBlob == [name |-> "", gen |-> 0, type |-> ""]

\* a Map<string, Blob> in insertion order
IsInjective(s) == \A i, j \in 1..Len(s) : i # j => s[i] # s[j]

NameSeqs(names, n) ==
    { s \in UNION { [1..k -> names] : k \in 0..n } : IsInjective(s) }

NewMap(nameSeq, gen) ==
    [i \in 1..Len(nameSeq) |-> [name |-> nameSeq[i], blob |-> Blob(nameSeq[i], gen)]]

\* index of the entry stored under key name, 0 when there is none (Map.get)
MapIndex(files, name) ==
    IF \E i \in 1..Len(files) : files[i].name = name
    THEN CHOOSE i \in 1..Len(files) : files[i].name = name
    ELSE 0

MapKeys(files) == { files[i].name : i \in 1..Len(files) }

\* a || b on lookups that yield an index, 0 standing for undefined
OrElse(a, b) == IF a # 0 THEN a ELSE b

\* the first of a set of indices, 0 when the set is empty
FirstIndex(S) == IF S = {} THEN 0 ELSE CHOOSE i \in S : \A j \in S : i <= j

\* the only index of a set of indices, 0 unless the set has exactly one
OnlyIndex(S) == IF Cardinality(S) = 1 THEN CHOOSE i \in S : TRUE ELSE 0

\* Array.prototype.filter over the keys: the indices of the keys satisfying P
FilterKeys(keys, P(_)) == { i \in 1..Len(keys) : P(keys[i]) }

\* Array.prototype.find over the keys: index of the first key satisfying P, 0 if none
FindKey(keys, P(_)) == FirstIndex(FilterKeys(keys, P))

\* Array.prototype.some over the keys
SomeKey(keys, P(_)) == \E i \in 1..Len(keys) : P(keys[i])

\* ------------------------------------------------------------------------
\* Configuration document and manifest: parseConfigs
\* ------------------------------------------------------------------------
\* architectures[0] of the documents of the model; "": the field is missing or empty
ArchChoices == << "MarianMTModel", "BertModel", "", "T5ForConditionalGeneration", "MarianMT" >>
\* model_type of the documents; "": the field is missing
ModelTypeChoices == << "marian", "" >>
\* is_encoder_decoder as the document writes it
FlagChoices == << "undefined", "true", "false" >>

NumParseable == Len(ArchChoices) * Len(ModelTypeChoices) * Len(FlagChoices)
NumDocs == NumParseable + 1

\* the text of the config.json of upload gen: what JSON.parse yields, or that it throws
ConfigDocs ==
    [gen \in 1..NumDocs |->
        [parseable |-> gen <= NumParseable,
         architecture |-> ArchChoices[((gen - 1) % Len(ArchChoices)) + 1],
         model_type |->
             ModelTypeChoices[(((gen - 1) \div Len(ArchChoices)) % Len(ModelTypeChoices)) + 1],
         is_encoder_decoder |->
             FlagChoices[(((gen - 1) \div (Len(ArchChoices) * Len(ModelTypeChoices)))
                            % Len(FlagChoices)) + 1]]]

Unknown == "Unknown"

\* variant: the 'MarianMT' marker is not tested
HasFamilyMarker_NoMarianMT(arch) ==
    Includes(arch, "ConditionalGeneration") \/ Includes(arch, "MTModel")

HasFamilyMarker(arch) ==
    \/ Includes(arch, "ConditionalGeneration")
    \/ Includes(arch, "MTModel")
    \/ Includes(arch, "MarianMT")

\* the marker test of every architecture tag of the model, computed once
ArchFacts ==
    [a \in { ArchChoices[i] : i \in 1..Len(ArchChoices) } \cup { Unknown } |->
        HasFamilyMarker(a)]

\* config.architectures?.[0] || 'Unknown'
Arch(doc) == IF doc.architecture # "" THEN doc.architecture ELSE Unknown

\* config.model_type || 'Unknown'
ModelType(doc) == IF doc.model_type # "" THEN doc.model_type ELSE Unknown

\* isEncDec, as a truth value
IsEncDec(doc) == ArchFacts[Arch(doc)] \/ doc.is_encoder_decoder = "true"

RequiredWeights(isEncDec) ==
    IF isEncDec THEN << "encoder_model.onnx", "decoder_model_merged.onnx" >>
    ELSE << "model.onnx" >>

\* the tokenizer documents: tokenizer_class and model_type as written ("": the
\* field is missing), or a text JSON.parse throws on
TokenizerChoices ==
    << [parseable |-> TRUE, tokenizer_class |-> "", model_type |-> ""],
       [parseable |-> TRUE, tokenizer_class |-> "MarianTokenizer", model_type |-> "marian"],
       [parseable |-> FALSE, tokenizer_class |-> "", model_type |-> ""],
       [parseable |-> TRUE, tokenizer_class |-> "", model_type |-> "marian"] >>

\* the text of the tokenizer document of upload gen
TokenizerDocs ==
    [gen \in 1..NumDocs |-> TokenizerChoices[((gen - 1) % Len(TokenizerChoices)) + 1]]

\* tData.tokenizer_class || tData.model_type || "Custom"; the empty catch
\* block leaves the initial "Standard"
TokenizerInfoOf(tdoc) ==
    IF ~tdoc.parseable THEN "Standard"
    ELSE IF tdoc.tokenizer_class # "" THEN tdoc.tokenizer_class
    ELSE IF tdoc.model_type # "" THEN tdoc.model_type
    ELSE "Custom"

\* index of customModelFiles.get('tokenizer_config.json') || ...get('tokenizer.json')
TokenizerIndex(files) ==
    OrElse(MapIndex(files, "tokenizer_config.json"), MapIndex(files, "tokenizer.json"))

\* tokenizerInfo
TokenizerInfo(files) ==
    IF TokenizerIndex(files) # 0
    THEN TokenizerInfoOf(TokenizerDocs[files[TokenizerIndex(files)].blob.gen])
    ELSE "Standard"

\* modelConfig === null
NoConfig ==
    [present |-> FALSE, arch |-> "", modelType |-> "", tokenizer |-> "",
     isEncoderDecoder |-> FALSE, requiredWeights |-> << >>,
     hasGenerationConfig |-> FALSE, hasQuantizeConfig |-> FALSE]

\* the object parseConfigs passes to setModelConfig
ManifestOf(doc, files) ==
    [present |-> TRUE, arch |-> Arch(doc), modelType |-> ModelType(doc),
     tokenizer |-> TokenizerInfo(files),
     isEncoderDecoder |-> IsEncDec(doc),
     requiredWeights |-> RequiredWeights(IsEncDec(doc)),
     hasGenerationConfig |-> MapIndex(files, "generation_config.json") # 0,
     hasQuantizeConfig |-> MapIndex(files, "quantize_config.json") # 0]

HasConfig(files) == MapIndex(files, "config.json") # 0

\* the document read from the bag's config.json
ConfigDocOf(files) == ConfigDocs[files[MapIndex(files, "config.json")].blob.gen]

\* ------------------------------------------------------------------------
\* Readiness checklist
\* ------------------------------------------------------------------------
ChecklistEntry(label, pattern, essential) ==
    [label |-> label, pattern |-> pattern, essential |-> essential]

\* the generic weights entry used while there is no manifest
GenericWeights == ChecklistEntry("weights (.onnx)", ".onnx", TRUE)

WeightEntries(config) ==
    IF config.present
    THEN [i \in 1..Len(config.requiredWeights) |->
             ChecklistEntry(config.requiredWeights[i], config.requiredWeights[i], TRUE)]
    ELSE << GenericWeights >>

ChecklistEntries(config) ==
    << ChecklistEntry("config.json", "config.json", TRUE),
       ChecklistEntry("tokenizer.json", "tokenizer", TRUE),
       ChecklistEntry("generation_config.json", "generation_config.json", FALSE),
       ChecklistEntry("quantize_config.json", "quantize_config.json", FALSE) >>
    \o WeightEntries(config)

ChecklistPatterns ==
    { "config.json", "tokenizer", "generation_config.json", "quantize_config.json" }
        \cup RequiredNames

\* what the checklist tests of every pattern, computed once; within: the file
\* names k with k.toLowerCase().includes(pattern.toLowerCase())
PatternFacts ==
    [p \in ChecklistPatterns |->
        [lower |-> ToLowerCase(p),
         onnx |-> EndsWith(p, ".onnx"),
         encoder |-> Includes(p, "encoder"),
         decoder |-> Includes(p, "decoder"),
         within |-> { k \in AllNames : Includes(ToLowerCase(k), ToLowerCase(p)) }]]

\* filenames.some(k => k.toLowerCase() === req.pattern.toLowerCase())
ChecklistExact(filenames, pattern) ==
    SomeKey(filenames, LAMBDA k : KeyFacts[k].lower = PatternFacts[pattern].lower)

\* "Fuzzy match for weights if not exact"
ChecklistWeights(filenames, pattern) ==
    IF PatternFacts[pattern].encoder
    THEN SomeKey(filenames, LAMBDA k : KeyFacts[k].encoder /\ KeyFacts[k].onnx)
    ELSE IF PatternFacts[pattern].decoder
    THEN \/ SomeKey(filenames, LAMBDA k : KeyFacts[k].decoder /\ KeyFacts[k].onnx)
         \/ SomeKey(filenames, LAMBDA k : KeyFacts[k].merged /\ KeyFacts[k].onnx)
    ELSE IF pattern = "model.onnx"
    THEN SomeKey(filenames, LAMBDA k : KeyFacts[k].onnx)
    ELSE FALSE

\* "Flexible match for tokenizer/config"
ChecklistFlexible(filenames, pattern) ==
    SomeKey(filenames, LAMBDA k : k \in PatternFacts[pattern].within)

\* found, for one entry of the checklist
Found(filenames, pattern) ==
    \/ ChecklistExact(filenames, pattern)
    \/ PatternFacts[pattern].onnx /\ ChecklistWeights(filenames, pattern)
    \/ ~PatternFacts[pattern].onnx /\ ChecklistFlexible(filenames, pattern)

\* ------------------------------------------------------------------------
\* Responses
\* ------------------------------------------------------------------------
\* kind: "hit" and "miss" are answers of the responder; "forward" is the
\* request handed on (originalFetch, no respondWith, next()); "none" is a
\* respondWith that settles without a Response.
Response(kind, status, ctype, cors, key, blob) ==
    [kind |-> kind, status |-> status, ctype |-> ctype, cors |-> cors,
     key |-> key, blob |-> blob]

Forwarded == Response("forward", 0, "", FALSE, "", NoBlob)
NoResponse == Response("none", 0, "", FALSE, "", NoBlob)

\* ------------------------------------------------------------------------
\* Same-process responder: the window.fetch override
\* ------------------------------------------------------------------------
\* files.get(filenameWithPossiblyPath) || files.get(filenameOnly)
WindowExact(files, full, fn) == OrElse(MapIndex(files, full), MapIndex(files, fn))

\* the encoder / decoder / merged search over Array.from(files.keys())
WindowFuzzy(filenames, fn) ==
    LET isEncoder == KeyFacts[fn].encoder
        isDecoder == KeyFacts[fn].decoder \/ KeyFacts[fn].merged
    IN  IF isEncoder
        THEN FindKey(filenames, LAMBDA k : KeyFacts[k].encoder /\ KeyFacts[k].onnx)
        ELSE IF isDecoder
        THEN OrElse(FindKey(filenames, LAMBDA k : KeyFacts[k].decoder /\ KeyFacts[k].onnx),
                    FindKey(filenames, LAMBDA k : KeyFacts[k].merged /\ KeyFacts[k].onnx))
        ELSE 0

\* variant: the fallback counts all files of the bag, not its .onnx files
WindowSingleOnnx_AllFiles(filenames) ==
    IF Len(filenames) = 1
    THEN OnlyIndex(FilterKeys(filenames, LAMBDA k : KeyFacts[k].onnx))
    ELSE 0

\* "just take any .onnx if there's only one"
WindowSingleOnnx(filenames) ==
    OnlyIndex(FilterKeys(filenames, LAMBDA k : KeyFacts[k].onnx))

\* variant: the role search runs before the exact match
WindowResolve_FuzzyFirst(files, full, fn) ==
    LET filenames == [i \in 1..Len(files) |-> files[i].name]
    IN  IF KeyFacts[fn].onnx
        THEN OrElse(WindowFuzzy(filenames, fn),
                    OrElse(WindowExact(files, full, fn), WindowSingleOnnx(filenames)))
        ELSE WindowExact(files, full, fn)

\* variant: the fallbacks run for every requested name
WindowResolve_AnyName(files, full, fn) ==
    LET filenames == [i \in 1..Len(files) |-> files[i].name]
    IN  OrElse(WindowExact(files, full, fn),
               OrElse(WindowFuzzy(filenames, fn), WindowSingleOnnx(filenames)))

\* index in files of the blob the override serves for the requested names,
\* 0 when it serves none
WindowResolve(files, full, fn) ==
    LET filenames == [i \in 1..Len(files) |-> files[i].name]
    IN  OrElse(WindowExact(files, full, fn),
               IF KeyFacts[fn].onnx
               THEN OrElse(WindowFuzzy(filenames, fn), WindowSingleOnnx(filenames))
               ELSE 0)

WindowHit(entry, fn) ==
    Response("hit", 200,
             IF entry.blob.type # "" THEN entry.blob.type
             ELSE IF KeyFacts[fn].json THEN "application/json"
             ELSE "application/octet-stream",
             TRUE, entry.name, entry.blob)

\* variant: the missing file is answered like a document, status 200 and HTML
WindowMiss_Document == Response("miss", 200, "text/html", FALSE, "", NoBlob)

WindowMiss == Response("miss", 404, "text/plain", FALSE, "", NoBlob)

\* variant: a name that resolves to no entry is passed on to originalFetch
WindowRespond_MissForwards(files, i, fn) ==
    IF i # 0 THEN WindowHit(files[i], fn) ELSE Forwarded

\* the answer of the override once the lookup yielded entry i of the bag
WindowRespond(files, i, fn) == IF i # 0 THEN WindowHit(files[i], fn) ELSE WindowMiss

\* the override past its guard, on the names norm taken from the URL
WindowServe(files, norm) ==
    WindowRespond(files,
                  WindowResolve(files, norm.filenameWithPossiblyPath, norm.filenameOnly),
                  norm.filenameOnly)

\* the override applied to url while __CUSTOM_MODEL_FILES__ is wf
WindowFetchOn(norm, wf) ==
    IF norm.windowIntercepts /\ wf.defined /\ Len(wf.files) > 0
    THEN WindowServe(wf.files, norm)
    ELSE Forwarded

windowFetch(url, wf) == WindowFetchOn(Normalised[url], wf)

\* ------------------------------------------------------------------------
\* Shared cache 'custom-model-cache-v1'
\* ------------------------------------------------------------------------
CacheEntry(url, blob, ctype) ==
    [url |-> url, status |-> 200, ctype |-> ctype, blob |-> blob]

\* variant: the pair stored under the same URL is kept
CachePut_KeepOld(cache, entry) == cache \o << entry >>

\* cache.put: drop the pair stored under the same URL, append the new pair
CachePut(cache, entry) ==
    SelectSeq(cache, LAMBDA e : e.url # entry.url) \o <<entry>>

\* cache.match: index of the pair stored under that URL, 0 if none
CacheMatch(cache, url) ==
    IF \E i \in 1..Len(cache) : cache[i].url = url
    THEN CHOOSE i \in 1..Len(cache) : cache[i].url = url
    ELSE 0

\* ------------------------------------------------------------------------
\* Persistent-worker responder: sw.js
\* ------------------------------------------------------------------------
\* 1. exact match, 2. filename-only match
SwExact(cache, relativeKey, filenameKey) ==
    OrElse(CacheMatch(cache, relativeKey), CacheMatch(cache, filenameKey))

\* 3. the encoder / decoder-or-merged search over cache.keys()
SwFuzzy(keys, fn) ==
    LET isEncoder == KeyFacts[fn].encoder
        isDecoder == KeyFacts[fn].decoder
    IN  IF isEncoder
        THEN FindKey(keys, LAMBDA k : KeyFacts[k].encoder /\ KeyFacts[k].onnx)
        ELSE IF isDecoder \/ KeyFacts[fn].merged
        THEN FindKey(keys, LAMBDA k : (KeyFacts[k].decoder \/ KeyFacts[k].merged)
                                       /\ KeyFacts[k].onnx)
        ELSE 0

\* "Fallback to any ONNX if only one exists"
SwSingleOnnx(keys) == OnlyIndex(FilterKeys(keys, LAMBDA k : KeyFacts[k].onnx))

\* index in cache of the pair the worker serves, 0 when it serves none
SwResolve(cache, relativeKey, filenameKey, fn) ==
    LET keys == [i \in 1..Len(cache) |-> cache[i].url]
    IN  OrElse(SwExact(cache, relativeKey, filenameKey),
               IF KeyFacts[fn].onnx
               THEN OrElse(SwFuzzy(keys, fn), SwSingleOnnx(keys))
               ELSE 0)

SwHit(entry) == Response("hit", entry.status, entry.ctype, TRUE, entry.url, entry.blob)

SwMiss == Response("miss", 404, "text/plain", FALSE, "", NoBlob)

\* serveCustomModel; failed: an awaited cache operation rejects and the catch
\* block returns no Response
SwRespond(cache, i) == IF i # 0 THEN SwHit(cache[i]) ELSE SwMiss

serveCustomModel(norm, cache, failed) ==
    IF failed THEN NoResponse
    ELSE SwRespond(cache,
                   SwResolve(cache, norm.relativeKey, norm.filenameKey, norm.swFilenameOnly))

\* the worker's fetch listener on the names norm taken from the URL
SwFetchOn(norm, cache, failed) ==
    IF norm.swIntercepts THEN serveCustomModel(norm, cache, failed) ELSE Forwarded

\* the worker's fetch listener applied to url
swFetch(url, cache, failed) == SwFetchOn(Normalised[url], cache, failed)

\* ------------------------------------------------------------------------
\* Build/dev-time static responder: vite.config.ts
\* ------------------------------------------------------------------------
PluginNotFound == Response("miss", 404, "text/plain", FALSE, "", NoBlob)

PluginOn(norm) == IF norm.pluginIntercepts THEN PluginNotFound ELSE Forwarded

customModelNotFoundPlugin(url) == PluginOn(Normalised[url])

\* ------------------------------------------------------------------------
\* State
\* ------------------------------------------------------------------------
VARIABLES
    phase,             \* "booting": the page script has run, App is not mounted; "running"
    customModelFiles,  \* React state: the bag of the store
    windowFiles,       \* window.__CUSTOM_MODEL_FILES__: [defined, files]
    cache,             \* pairs of the cache 'custom-model-cache-v1', in keys() order
    saveTasks,         \* saveFiles calls in flight: [files, pos, opened, live]
    synced,            \* the saveFiles call for the current bag ran to its end
    idb,               \* IndexedDB record 'current_custom_model': [present, files]
    idbQueue,          \* IndexedDB requests of the page not yet performed
    restorePending,    \* initDB has opened the database, its get is not delivered yet
    swControlled,      \* navigator.serviceWorker.controller is set
    resetPc,           \* RESET handler: "idle", or "deleting" while awaiting caches.delete
    uploads,           \* number of uploads so far
    clearedUrls,       \* request URLs that resolved against the bag RESET removed
    last,              \* the last request and what each responder answered
    modelSource,       \* React state, kept in localStorage: "remote" or "custom"
    modelConfig,       \* React state: the manifest, NoConfig for null
    parseTasks,        \* parseConfigs calls in flight: the bag each one reads
    isOfflineMode,     \* React state, kept in localStorage
    isModelLoading,    \* React state: the loading flag
    errorMessage,      \* React state: "" for null, else the kind of message shown
    translator,        \* translatorRef.current: [present, modelId, files]
    loadedModelId,     \* React state: "" for null
    env,               \* the settings object of the inference library
    libCaches,         \* Cache Storage but for the shared cache: name -> set of keys
    loadTasks,         \* loadOfflineModel calls in flight
    lastLoad           \* how the last loadOfflineModel call that ended has ended

manifestVars == << modelSource, modelConfig, parseTasks >>

loadVars == << isOfflineMode, isModelLoading, errorMessage, translator, loadedModelId,
               env, libCaches, loadTasks, lastLoad >>

vars == << phase, customModelFiles, windowFiles, cache, saveTasks, synced, idb,
           idbQueue, restorePending, swControlled, resetPc, uploads, clearedUrls, last,
           modelSource, modelConfig, parseTasks,
           isOfflineMode, isModelLoading, errorMessage, translator, loadedModelId,
           env, libCaches, loadTasks, lastLoad >>

NoRequest ==
    [url |-> "", window |-> Forwarded, worker |-> Forwarded, dev |-> Forwarded,
     via |-> "none", page |-> Forwarded, cleared |-> FALSE]

UndefinedFiles == [defined |-> FALSE, files |-> << >>]
Published(files) == [defined |-> TRUE, files |-> files]

NoRecord == [present |-> FALSE, files |-> << >>]
Record(files) == [present |-> TRUE, files |-> files]

\* ------------------------------------------------------------------------
\* Asset store
\* ------------------------------------------------------------------------
\* the pair saveFiles writes for one entry of the bag: new Response(blob)
SavedEntry(entry) == CacheEntry(KeyUrl[entry.name], entry.blob, entry.blob.type)

\* the cache after a saveFiles call for files ran to its end on cache c
RECURSIVE SaveAll(_, _, _)
SaveAll(c, files, from) ==
    IF from > Len(files) THEN c
    ELSE SaveAll(CachePut(c, SavedEntry(files[from])), files, from + 1)

\* the pair loadOfflineModel writes for one entry of the bag: the Content-Type
\* header is blob.type || 'application/octet-stream'
LoadedEntry(entry) ==
    CacheEntry(KeyUrl[entry.name], entry.blob,
               IF entry.blob.type # "" THEN entry.blob.type ELSE "application/octet-stream")

\* the cache after the cache.put loop of loadOfflineModel for files ran on cache c
RECURSIVE LoadAll(_, _, _)
LoadAll(c, files, from) ==
    IF from > Len(files) THEN c
    ELSE LoadAll(CachePut(c, LoadedEntry(files[from])), files, from + 1)

\* one IndexedDB request performed on the record
IdbPerform(rec, req) == IF req.op = "put" THEN Record(req.files) ELSE NoRecord

RECURSIVE IdbPerformAll(_, _, _)
IdbPerformAll(rec, queue, k) ==
    IF k = 0 THEN rec
    ELSE IdbPerform(IdbPerformAll(rec, queue, k - 1), queue[k])

\* ------------------------------------------------------------------------
\* Model loading: state of loadOfflineModel
\* ------------------------------------------------------------------------
\* the stored remoteModelId (its default)
remoteModelId == "Xenova/opus-mt-en-id"
CustomModelId == "custom-model"

\* env as the module sets it when it is loaded
InitialEnv ==
    [allowLocalModels |-> TRUE, allowRemoteModels |-> TRUE, localModelPath |-> "",
     remoteHost |-> "default", remotePathTemplate |-> "default"]

\* env as the remote branch of loadOfflineModel sets it
RemoteEnv ==
    [allowLocalModels |-> FALSE, allowRemoteModels |-> TRUE, localModelPath |-> "",
     remoteHost |-> "https://huggingface.co",
     remotePathTemplate |-> "{model}/resolve/{revision}/"]

\* env as the custom branch of loadOfflineModel sets it
CustomEnv ==
    [allowLocalModels |-> TRUE, allowRemoteModels |-> FALSE,
     localModelPath |-> Origin \o "/", remoteHost |-> "", remotePathTemplate |-> ""]

\* error.message of the failures pipeline() ends with
FailureMessages ==
    { "Unexpected token < in JSON at position 0",
      "Invalid ONNX model: bad JSON metadata",
      "Can't create a session: ONNX runtime error",
      "Failed to fetch" }

\* error.message?.includes(...) for every failure message, computed once
FailureFacts ==
    [m \in FailureMessages |-> [json |-> Includes(m, "JSON"), onnx |-> Includes(m, "ONNX")]]

JsonErrorMessage ==
    "Gagal membaca konfigurasi model (JSON error). Pastikan file config.json dan tokenizer.json benar."

OnnxErrorMessage ==
    "Gagal memuat file ONNX. Pastikan file model .onnx benar dan kompatibel dengan Transformers.js."

\* the generic messages of the catch block for every failure message, computed once
GenericErrorMessage == [m \in FailureMessages |-> "Gagal memuat model custom: " \o m]

\* variant: the weight-file test comes before the configuration test
ErrorMessageOf_OnnxFirst(source, m) ==
    IF source # "custom" THEN m
    ELSE IF FailureFacts[m].onnx THEN OnnxErrorMessage
    ELSE IF FailureFacts[m].json THEN JsonErrorMessage
    ELSE GenericErrorMessage[m]

\* errorMsg of the catch block around pipeline() for error.message = m
ErrorMessageOf(source, m) ==
    IF source # "custom" THEN m
    ELSE IF FailureFacts[m].json THEN JsonErrorMessage
    ELSE IF FailureFacts[m].onnx THEN OnnxErrorMessage
    ELSE GenericErrorMessage[m]

\* translatorRef.current === null
NoTranslator == [present |-> FALSE, modelId |-> "", files |-> << >>]

\* no loadOfflineModel call has ended yet
NoLoad == [result |-> "none", reason |-> "", files |-> << >>]

\* how a loadOfflineModel call ended: what it returned, on which path, and the
\* bag it was called for
LoadEnded(result, reason, files) == [result |-> result, reason |-> reason, files |-> files]

\* the caches of Cache Storage next to the shared cache
LibCacheNames == { "transformers-cache", "app-shell-v1" }

\* the request URLs kept as keys in those caches
LibKeys ==
    { Url("/custom-model/config.json"),
      Url("/index.html"),
      "https://huggingface.co/acme/custom-model/resolve/main/config.json",
      "https://huggingface.co/Xenova/opus-mt-en-id/resolve/main/config.json" }

\* n.includes('transformers') for every cache name, computed once
LibCacheFacts == [n \in LibCacheNames |-> Includes(n, "transformers")]

\* key.url.includes('/custom-model/') for every key, computed once; reserved:
\* the key is a URL of the page's origin whose path starts with the prefix
LibKeyFacts ==
    [k \in LibKeys |->
        [purged |-> Includes(k, "/custom-model/"),
         reserved |-> StartsWith(k, Origin \o PREFIX)]]

\* the keys of a cache the purge loop leaves
PurgeKeys(keys) == { k \in keys : ~LibKeyFacts[k].purged }

\* Cache Storage after the purge loop of loadOfflineModel ran to its end
Purge(c) == [n \in LibCacheNames |-> IF LibCacheFacts[n] THEN PurgeKeys(c[n]) ELSE c[n]]

\* the key under which the library caches the configuration document it fetched
LibKeyOf(source) ==
    IF source = "custom" THEN Url("/custom-model/config.json")
    ELSE "https://huggingface.co/Xenova/opus-mt-en-id/resolve/main/config.json"

\* a loadOfflineModel call in flight: where it is, its closure (source, files),
\* and what it has done so far
LoadTask(pc, source, files) ==
    [pc |-> pc, source |-> source, files |-> files, purge |-> "none", pos |-> 0,
     requested |-> FALSE, assets |-> << >>, bagCached |-> FALSE,
     invokeEnv |-> InitialEnv, fetchEnv |-> InitialEnv]

\* variant: the custom branch goes from the control check straight to the cache writes
StepAfter_NoPurge(pc) == IF pc = "ready" THEN "save" ELSE "pipeline"

\* the order of the awaited steps of the custom branch
StepAfter(pc) ==
    IF pc = "ready" THEN "purge" ELSE IF pc = "purge" THEN "save" ELSE "pipeline"

\* no load was ever started in this page
LoadAtRest ==
    /\ isOfflineMode = TRUE
    /\ isModelLoading = FALSE
    /\ errorMessage = ""
    /\ translator = NoTranslator
    /\ loadedModelId = ""
    /\ env = InitialEnv
    /\ libCaches = [n \in LibCacheNames |-> {}]
    /\ loadTasks = << >>
    /\ lastLoad = NoLoad

Init ==
    /\ phase = "booting"
    /\ customModelFiles = << >>
    /\ windowFiles = UndefinedFiles
    /\ cache = << >>
    /\ saveTasks = << >>
    /\ synced = FALSE
    /\ idb = NoRecord
    /\ idbQueue = << >>
    /\ restorePending = FALSE
    /\ swControlled = FALSE
    /\ resetPc = "idle"
    /\ uploads = 0
    /\ clearedUrls = {}
    /\ last = NoRequest
    /\ modelSource \in { "remote", "custom" }
    /\ modelConfig = NoConfig
    /\ LoadAtRest
    /\ parseTasks = {}

\* the effect on [customModelFiles, modelSource]: the manifest is dropped when
\* the source is not custom or the bag is empty; parseConfigs starts, and
\* returns at once when the bag has no config.json
ParseEffect(files, source) ==
    IF source # "custom" \/ Len(files) = 0
    THEN /\ modelConfig' = NoConfig
         /\ UNCHANGED parseTasks
    ELSE IF HasConfig(files)
    THEN /\ parseTasks' = parseTasks \cup { files }
         /\ UNCHANGED modelConfig
    ELSE UNCHANGED << modelConfig, parseTasks >>

\* variant: the IndexedDB write is issued for the bag held before the replace
SyncEffect_StaleWrite(files) ==
    /\ windowFiles' = Published(files)
    /\ synced' = FALSE
    /\ IF Len(files) > 0
       THEN /\ saveTasks' = Append(saveTasks,
                                   [files |-> files, pos |-> 0, opened |-> FALSE, live |-> FALSE])
            /\ idbQueue' = Append(idbQueue, [op |-> "put", files |-> customModelFiles])
       ELSE UNCHANGED << saveTasks, idbQueue >>

\* the effect on [customModelFiles]: publish the bag, start saveFiles and the
\* IndexedDB write when the bag is not empty
SyncEffect(files) ==
    /\ windowFiles' = Published(files)
    /\ synced' = FALSE
    /\ IF Len(files) > 0
       THEN /\ saveTasks' = Append(saveTasks,
                                   [files |-> files, pos |-> 0, opened |-> FALSE, live |-> FALSE])
            /\ idbQueue' = Append(idbQueue, [op |-> "put", files |-> files])
       ELSE UNCHANGED << saveTasks, idbQueue >>

\* first render of App: the mount effects run (initDB opens the database, the
\* sync effect publishes the empty bag)
Mount ==
    /\ phase = "booting"
    /\ phase' = "running"
    /\ restorePending' = TRUE
    /\ windowFiles' = Published(customModelFiles)
    /\ UNCHANGED << customModelFiles, cache, saveTasks, synced, idb, idbQueue,
                    swControlled, resetPc, uploads, clearedUrls, last >>
    /\ UNCHANGED manifestVars
    /\ UNCHANGED loadVars

\* initDB: getRequest.onsuccess
Restore ==
    /\ phase = "running"
    /\ restorePending
    /\ restorePending' = FALSE
    /\ IF idb.present
       THEN /\ Len(saveTasks) < MaxTasks
            /\ customModelFiles' = idb.files
            /\ clearedUrls' = {}
            /\ SyncEffect(idb.files)
            /\ ParseEffect(idb.files, modelSource)
       ELSE UNCHANGED << customModelFiles, windowFiles, saveTasks, synced, idbQueue,
                         clearedUrls, modelConfig, parseTasks >>
    /\ UNCHANGED << phase, cache, idb, swControlled, resetPc, uploads, last, modelSource >>
    /\ UNCHANGED loadVars

\* upload input.onchange (the button is rendered for the custom source): the
\* bag is replaced wholesale by the chosen files; gen is their content
Upload(nameSeq, gen) ==
    /\ phase = "running"
    /\ isOfflineMode
    /\ modelSource = "custom"
    /\ uploads < MaxUploads
    /\ Len(saveTasks) < MaxTasks
    /\ uploads' = uploads + 1
    /\ customModelFiles' = NewMap(nameSeq, gen)
    /\ clearedUrls' = {}
    /\ SyncEffect(NewMap(nameSeq, gen))
    /\ ParseEffect(NewMap(nameSeq, gen), modelSource)
    /\ UNCHANGED << phase, cache, idb, restorePending, swControlled, resetPc, last,
                    modelSource >>
    /\ UNCHANGED loadVars

ReplaceAt(seq, i, v) == [seq EXCEPT ![i] = v]
RemoveAt(seq, i) == SubSeq(seq, 1, i - 1) \o SubSeq(seq, i + 1, Len(seq))

\* saveFiles: await caches.open(...)
SaveOpen(i) ==
    /\ i \in 1..Len(saveTasks)
    /\ ~saveTasks[i].opened
    /\ saveTasks' = ReplaceAt(saveTasks, i, [saveTasks[i] EXCEPT !.opened = TRUE, !.live = TRUE])
    /\ UNCHANGED << phase, customModelFiles, windowFiles, cache, synced, idb, idbQueue,
                    restorePending, swControlled, resetPc, uploads, clearedUrls, last >>
    /\ UNCHANGED manifestVars
    /\ UNCHANGED loadVars

\* saveFiles: one await cache.put(...) of the loop; the call ends after the last
SavePut(i) ==
    /\ i \in 1..Len(saveTasks)
    /\ saveTasks[i].opened
    /\ LET t == saveTasks[i]
           n == t.pos + 1
       IN  /\ cache' = IF t.live THEN CachePut(cache, SavedEntry(t.files[n])) ELSE cache
           /\ IF n = Len(t.files)
              THEN /\ saveTasks' = RemoveAt(saveTasks, i)
                   /\ synced' = (synced \/ (t.live /\ t.files = customModelFiles))
              ELSE /\ saveTasks' = ReplaceAt(saveTasks, i, [t EXCEPT !.pos = n])
                   /\ UNCHANGED synced
    /\ UNCHANGED << phase, customModelFiles, windowFiles, idb, idbQueue, restorePending,
                    swControlled, resetPc, uploads, clearedUrls, last >>
    /\ UNCHANGED manifestVars
    /\ UNCHANGED loadVars

\* saveFiles: caches.open or cache.put rejects, the catch block logs it
SaveFail(i) ==
    /\ i \in 1..Len(saveTasks)
    /\ saveTasks' = RemoveAt(saveTasks, i)
    /\ UNCHANGED << phase, customModelFiles, windowFiles, cache, synced, idb, idbQueue,
                    restorePending, swControlled, resetPc, uploads, clearedUrls, last >>
    /\ UNCHANGED manifestVars
    /\ UNCHANGED loadVars

\* request.onsuccess of the oldest IndexedDB request of the page: store.put / store.delete
IdbApply ==
    /\ phase = "running"
    /\ ~restorePending
    /\ Len(idbQueue) > 0
    /\ idb' = IdbPerform(idb, Head(idbQueue))
    /\ idbQueue' = Tail(idbQueue)
    /\ UNCHANGED << phase, customModelFiles, windowFiles, cache, saveTasks, synced,
                    restorePending, swControlled, resetPc, uploads, clearedUrls, last >>
    /\ UNCHANGED manifestVars
    /\ UNCHANGED loadVars

\* RESET onClick, up to await caches.delete(...): the bag is emptied and published
ResetClick ==
    /\ phase = "running"
    /\ isOfflineMode
    /\ modelSource = "custom"
    /\ resetPc = "idle"
    /\ Len(customModelFiles) > 0
    /\ resetPc' = "deleting"
    /\ customModelFiles' = << >>
    /\ clearedUrls' = { u \in StoreUrls : windowFetch(u, windowFiles).kind = "hit" }
    /\ SyncEffect(<< >>)
    /\ ParseEffect(<< >>, modelSource)
    /\ UNCHANGED << phase, cache, idb, restorePending, swControlled, uploads, last,
                    modelSource >>
    /\ UNCHANGED loadVars

\* RESET onClick after caches.delete resolved: the delete request is issued and
\* the page reloads; of the page's IndexedDB requests the first k are performed
ResetReload(k) ==
    /\ resetPc = "deleting"
    /\ LET queue == Append(idbQueue, [op |-> "delete", files |-> << >>])
       IN  /\ k \in 0..Len(queue)
           /\ idb' = IdbPerformAll(idb, queue, k)
    /\ cache' = << >>
    /\ idbQueue' = << >>
    /\ saveTasks' = << >>
    /\ synced' = FALSE
    /\ resetPc' = "idle"
    /\ phase' = "booting"
    /\ customModelFiles' = << >>
    /\ windowFiles' = UndefinedFiles
    /\ restorePending' = FALSE
    /\ modelConfig' = NoConfig
    /\ parseTasks' = {}
    /\ isModelLoading' = FALSE
    /\ errorMessage' = ""
    /\ translator' = NoTranslator
    /\ loadedModelId' = ""
    /\ env' = InitialEnv
    /\ loadTasks' = << >>
    /\ lastLoad' = NoLoad
    /\ UNCHANGED << swControlled, uploads, clearedUrls, last, modelSource, isOfflineMode,
                    libCaches >>

\* RESET onClick: caches.delete rejects, the catch block logs it
ResetFail ==
    /\ resetPc = "deleting"
    /\ resetPc' = "idle"
    /\ UNCHANGED << phase, customModelFiles, windowFiles, cache, saveTasks, synced, idb,
                    idbQueue, restorePending, swControlled, uploads, clearedUrls, last >>
    /\ UNCHANGED manifestVars
    /\ UNCHANGED loadVars

\* the Remote and Custom cards: setIsOfflineMode(true); setModelSource(source)
SelectSource(source) ==
    /\ phase = "running"
    /\ source # modelSource \/ ~isOfflineMode
    /\ modelSource' = source
    /\ isOfflineMode' = TRUE
    /\ ParseEffect(customModelFiles, source)
    /\ UNCHANGED << isModelLoading, errorMessage, translator, loadedModelId, env,
                    libCaches, loadTasks, lastLoad >>
    /\ UNCHANGED << phase, customModelFiles, windowFiles, cache, saveTasks, synced, idb,
                    idbQueue, restorePending, swControlled, resetPc, uploads, clearedUrls,
                    last >>

\* the Offline Mode button of the header: setIsOfflineMode(!isOfflineMode)
ToggleOffline ==
    /\ phase = "running"
    /\ isOfflineMode' = ~isOfflineMode
    /\ UNCHANGED << phase, customModelFiles, windowFiles, cache, saveTasks, synced, idb,
                    idbQueue, restorePending, swControlled, resetPc, uploads, clearedUrls,
                    last, isModelLoading, errorMessage, translator, loadedModelId, env,
                    libCaches, loadTasks, lastLoad >>
    /\ UNCHANGED manifestVars

\* a parseConfigs call in flight runs to its end: the manifest is set, or
\* JSON.parse throws and the catch block logs it
ParseDone ==
    /\ \E files \in parseTasks :
          /\ parseTasks' = parseTasks \ { files }
          /\ modelConfig' = IF ConfigDocOf(files).parseable
                            THEN ManifestOf(ConfigDocOf(files), files)
                            ELSE modelConfig
    /\ UNCHANGED << phase, customModelFiles, windowFiles, cache, saveTasks, synced, idb,
                    idbQueue, restorePending, swControlled, resetPc, uploads, clearedUrls,
                    last, modelSource >>
    /\ UNCHANGED loadVars

\* sw.js activate: clients.claim()
ClaimClients ==
    /\ ~swControlled
    /\ swControlled' = TRUE
    /\ UNCHANGED << phase, customModelFiles, windowFiles, cache, saveTasks, synced, idb,
                    idbQueue, restorePending, resetPc, uploads, clearedUrls, last >>
    /\ UNCHANGED manifestVars
    /\ UNCHANGED loadVars

\* ------------------------------------------------------------------------
\* Model loading: loadOfflineModel
\* ------------------------------------------------------------------------
\* every entry of files has a pair in the shared cache c under its virtual path
BagCached(files, c) ==
    \A i \in 1..Len(files) : \E j \in 1..Len(c) : c[j].url = KeyUrl[files[i].name]

\* loadOfflineModel up to its first await, with the state of the render that
\* made the handler: the id of the model asked for is target
LoadStart(target) ==
    IF translator.present /\ loadedModelId = target
    THEN /\ lastLoad' = LoadEnded("true", "already", customModelFiles)
         /\ UNCHANGED << isModelLoading, errorMessage, translator, env, loadTasks >>
    ELSE IF isModelLoading
    THEN /\ lastLoad' = LoadEnded("false", "busy", customModelFiles)
         /\ UNCHANGED << isModelLoading, errorMessage, translator, env, loadTasks >>
    ELSE /\ translator' = IF loadedModelId # target THEN NoTranslator ELSE translator
         /\ isModelLoading' = TRUE
         /\ errorMessage' = ""
         /\ env' = IF modelSource = "remote" THEN RemoteEnv ELSE env
         /\ loadTasks' = Append(loadTasks,
                                [LoadTask(IF modelSource = "remote" THEN "pipeline" ELSE "ready",
                                          modelSource, customModelFiles)
                                     EXCEPT !.invokeEnv = env'])
         /\ UNCHANGED lastLoad

\* onClick of DOWNLOAD (remote panel) and of MUAT MODEL (custom panel, disabled
\* without a manifest): loadOfflineModel()
LoadCall ==
    /\ phase = "running"
    /\ isOfflineMode
    /\ ~isModelLoading
    /\ modelSource = "custom" => modelConfig.present
    /\ Len(loadTasks) < MaxLoads
    /\ LoadStart(IF modelSource = "remote" THEN remoteModelId ELSE CustomModelId)
    /\ UNCHANGED << phase, customModelFiles, windowFiles, cache, saveTasks, synced, idb,
                    idbQueue, restorePending, swControlled, resetPc, uploads, clearedUrls,
                    last, isOfflineMode, loadedModelId, libCaches >>
    /\ UNCHANGED manifestVars

\* the translate path (translateInBatches without a translator): the error
\* message is cleared and loadOfflineModel() is awaited
TranslateCall ==
    /\ phase = "running"
    /\ isOfflineMode
    /\ ~translator.present
    /\ IF isModelLoading
       THEN /\ lastLoad' = LoadEnded("false", "busy", customModelFiles)
            /\ errorMessage' = ""
            /\ UNCHANGED << isModelLoading, translator, env, loadTasks >>
       ELSE /\ Len(loadTasks) < MaxLoads
            /\ LoadStart(IF modelSource = "remote" THEN remoteModelId ELSE CustomModelId)
    /\ UNCHANGED << phase, customModelFiles, windowFiles, cache, saveTasks, synced, idb,
                    idbQueue, restorePending, swControlled, resetPc, uploads, clearedUrls,
                    last, isOfflineMode, loadedModelId, libCaches >>
    /\ UNCHANGED manifestVars

\* the button of the loading toast: setIsModelLoading(false); the calls in
\* flight go on
CancelLoad ==
    /\ phase = "running"
    /\ isModelLoading
    /\ isModelLoading' = FALSE
    /\ UNCHANGED << phase, customModelFiles, windowFiles, cache, saveTasks, synced, idb,
                    idbQueue, restorePending, swControlled, resetPc, uploads, clearedUrls,
                    last, isOfflineMode, errorMessage, translator, loadedModelId, env,
                    libCaches, loadTasks, lastLoad >>
    /\ UNCHANGED manifestVars

\* variant: the call ends without clearing the loading flag
LoadRefused_KeepFlag(i) ==
    /\ UNCHANGED isModelLoading
    /\ errorMessage' = "reload"
    /\ lastLoad' = LoadEnded("false", "reload", loadTasks[i].files)
    /\ loadTasks' = RemoveAt(loadTasks, i)
    /\ UNCHANGED windowFiles

\* the branch of loadOfflineModel for a page without controller: the flag is
\* cleared, the reload message is set, the call returns false
LoadRefused(i) ==
    /\ isModelLoading' = FALSE
    /\ errorMessage' = "reload"
    /\ lastLoad' = LoadEnded("false", "reload", loadTasks[i].files)
    /\ loadTasks' = RemoveAt(loadTasks, i)
    /\ UNCHANGED windowFiles

\* loadOfflineModel after await navigator.serviceWorker.ready: without a
\* controller the call ends with the reload message, else the bag of the call
\* is published
LoadReady(i) ==
    /\ i \in 1..Len(loadTasks)
    /\ loadTasks[i].pc = "ready"
    /\ IF ~swControlled
       THEN LoadRefused(i)
       ELSE /\ windowFiles' = Published(loadTasks[i].files)
            /\ loadTasks' = ReplaceAt(loadTasks, i,
                                      [loadTasks[i] EXCEPT !.pc = StepAfter("ready")])
            /\ UNCHANGED << isModelLoading, errorMessage, lastLoad >>
    /\ UNCHANGED << phase, customModelFiles, cache, saveTasks, synced, idb, idbQueue,
                    restorePending, swControlled, resetPc, uploads, clearedUrls, last,
                    isOfflineMode, translator, loadedModelId, env, libCaches >>
    /\ UNCHANGED manifestVars

\* the purge of the library's caches: the loop runs to its end, or
\* caches.keys() rejects and the catch block logs it
LoadPurge(i, ok) ==
    /\ i \in 1..Len(loadTasks)
    /\ loadTasks[i].pc = "purge"
    /\ libCaches' = IF ok THEN Purge(libCaches) ELSE libCaches
    /\ loadTasks' = ReplaceAt(loadTasks, i,
                              [loadTasks[i] EXCEPT !.pc = StepAfter("purge"),
                                                   !.purge = IF ok THEN "done" ELSE "failed"])
    /\ UNCHANGED << phase, customModelFiles, windowFiles, cache, saveTasks, synced, idb,
                    idbQueue, restorePending, swControlled, resetPc, uploads, clearedUrls,
                    last, isOfflineMode, isModelLoading, errorMessage, translator,
                    loadedModelId, env, lastLoad >>
    /\ UNCHANGED manifestVars

\* the task once its cache writes are over: env is set for the custom source
\* and pipeline() is called in the same turn
Invoked(t, c) ==
    [t EXCEPT !.pc = StepAfter("save"), !.bagCached = BagCached(customModelFiles, c),
              !.invokeEnv = CustomEnv]

\* one await cache.put(...) of the loop over the bag of the call (the first
\* one with the await caches.open before it); after the last one, or at once
\* for an empty bag, the pipeline is invoked
LoadSave(i) ==
    /\ i \in 1..Len(loadTasks)
    /\ loadTasks[i].pc = "save"
    /\ IF loadTasks[i].pos < Len(loadTasks[i].files)
       THEN cache' = CachePut(cache, LoadedEntry(loadTasks[i].files[loadTasks[i].pos + 1]))
       ELSE UNCHANGED cache
    /\ IF loadTasks[i].pos + 1 >= Len(loadTasks[i].files)
       THEN /\ env' = CustomEnv
            /\ loadTasks' = ReplaceAt(loadTasks, i, Invoked(loadTasks[i], cache'))
       ELSE /\ loadTasks' = ReplaceAt(loadTasks, i,
                                      [loadTasks[i] EXCEPT !.pos = loadTasks[i].pos + 1])
            /\ UNCHANGED env
    /\ UNCHANGED << phase, customModelFiles, windowFiles, saveTasks, synced, idb, idbQueue,
                    restorePending, swControlled, resetPc, uploads, clearedUrls, last,
                    isOfflineMode, isModelLoading, errorMessage, translator, loadedModelId,
                    libCaches, lastLoad >>
    /\ UNCHANGED manifestVars

\* caches.open or a cache.put of the custom branch rejects: the statements are
\* outside every try block, so the promise of the call is rejected and none
\* of its later statements runs
LoadSaveFail(i) ==
    /\ i \in 1..Len(loadTasks)
    /\ loadTasks[i].pc = "save"
    /\ lastLoad' = LoadEnded("threw", "put", loadTasks[i].files)
    /\ loadTasks' = RemoveAt(loadTasks, i)
    /\ UNCHANGED << phase, customModelFiles, windowFiles, cache, saveTasks, synced, idb,
                    idbQueue, restorePending, swControlled, resetPc, uploads, clearedUrls,
                    last, isOfflineMode, isModelLoading, errorMessage, translator,
                    loadedModelId, env, libCaches >>
    /\ UNCHANGED manifestVars

\* the pipeline fetches the model's assets: for the custom source they are
\* resolved against the bag published at that moment; the library keeps the
\* response in its cache
PipelineRequest(i) ==
    /\ i \in 1..Len(loadTasks)
    /\ loadTasks[i].pc = "pipeline"
    /\ ~loadTasks[i].requested
    /\ loadTasks' = ReplaceAt(loadTasks, i,
                              [loadTasks[i] EXCEPT
                                  !.requested = TRUE,
                                  !.fetchEnv = env,
                                  !.assets = IF loadTasks[i].source = "custom"
                                             THEN windowFiles.files ELSE << >>])
    /\ libCaches' = [libCaches EXCEPT !["transformers-cache"] =
                        @ \cup { LibKeyOf(loadTasks[i].source) }]
    /\ UNCHANGED << phase, customModelFiles, windowFiles, cache, saveTasks, synced, idb,
                    idbQueue, restorePending, swControlled, resetPc, uploads, clearedUrls,
                    last, isOfflineMode, isModelLoading, errorMessage, translator,
                    loadedModelId, env, lastLoad >>
    /\ UNCHANGED manifestVars

\* the id passed to pipeline()
ModelIdOf(source) == IF source = "remote" THEN remoteModelId ELSE CustomModelId

\* await pipeline(...) settles: the translator is installed, or the catch block
\* reports the failure with message m and leaves offline mode
PipelineDone(i, ok, m) ==
    /\ i \in 1..Len(loadTasks)
    /\ loadTasks[i].pc = "pipeline"
    /\ ok => loadTasks[i].requested /\ m = "Failed to fetch"
    /\ IF ok
       THEN /\ translator' = [present |-> TRUE, modelId |-> ModelIdOf(loadTasks[i].source),
                              files |-> loadTasks[i].assets]
            /\ loadedModelId' = ModelIdOf(loadTasks[i].source)
            /\ lastLoad' = LoadEnded("true", "loaded", loadTasks[i].files)
            /\ UNCHANGED << errorMessage, isOfflineMode >>
       ELSE /\ errorMessage' = ErrorMessageOf(loadTasks[i].source, m)
            /\ isOfflineMode' = FALSE
            /\ lastLoad' = LoadEnded("false", m, loadTasks[i].files)
            /\ UNCHANGED << translator, loadedModelId >>
    /\ isModelLoading' = FALSE
    /\ loadTasks' = RemoveAt(loadTasks, i)
    /\ UNCHANGED << phase, customModelFiles, windowFiles, cache, saveTasks, synced, idb,
                    idbQueue, restorePending, swControlled, resetPc, uploads, clearedUrls,
                    last, env, libCaches >>
    /\ UNCHANGED manifestVars

\* ------------------------------------------------------------------------
\* Requests
\* ------------------------------------------------------------------------
\* who answers a fetch(url) call of the page: the override, else the worker
\* when it controls the page and responds, else the network
PageVia(window, worker) ==
    IF window.kind # "forward" THEN "window"
    ELSE IF swControlled /\ worker.kind # "forward" THEN "worker"
    ELSE "network"

\* the answer the page gets from the responder that takes the request
PageResponse(via, window, worker) ==
    IF via = "window" THEN window ELSE IF via = "worker" THEN worker ELSE Forwarded

\* the record of one request and of what each responder answered
Outcome(url, window, worker, dev, via, cleared) ==
    [url |-> url, window |-> window, worker |-> worker, dev |-> dev, via |-> via,
     page |-> PageResponse(via, window, worker), cleared |-> cleared]

RequestOn(url, window, worker, dev) ==
    Outcome(url, window, worker, dev, PageVia(window, worker), url \in clearedUrls)

\* url is requested: what the override, the worker and the dev server answer
Request(url, failed) ==
    /\ last' = RequestOn(url, windowFetch(url, windowFiles), swFetch(url, cache, failed),
                         customModelNotFoundPlugin(url))
    /\ UNCHANGED << phase, customModelFiles, windowFiles, cache, saveTasks, synced, idb,
                    idbQueue, restorePending, swControlled, resetPc, uploads, clearedUrls >>
    /\ UNCHANGED manifestVars
    /\ UNCHANGED loadVars

Next ==
    \/ Mount
    \/ Restore
    \/ \E nameSeq \in NameSeqs(UploadNames, MaxUploadLen) \ { << >> } :
           Upload(nameSeq, uploads + 1)
    \/ \E i \in 1..MaxTasks : SaveOpen(i)
    \/ \E i \in 1..MaxTasks : SavePut(i)
    \/ \E i \in 1..MaxTasks : SaveFail(i)
    \/ IdbApply
    \/ ResetClick
    \/ \E k \in 0..(MaxTasks + 2) : ResetReload(k)
    \/ ResetFail
    \/ ClaimClients
    \/ \E source \in { "remote", "custom" } : SelectSource(source)
    \/ ParseDone
    \/ \E url \in StoreUrls, failed \in BOOLEAN : Request(url, failed)

Spec == Init /\ [][Next]_vars

\* the manifest once the parse started for the bag has ended
RestConfig(files, source) ==
    IF source = "custom" /\ Len(files) > 0 /\ HasConfig(files) /\ ConfigDocOf(files).parseable
    THEN ManifestOf(ConfigDocOf(files), files)
    ELSE NoConfig

\* ------------------------------------------------------------------------
\* Resolution specification: the store is at rest after the upload of a bag
\* (published, saved to the cache and to IndexedDB, and possibly loaded by
\* loadOfflineModel, which needs a controlling worker) and requests arrive
\* ------------------------------------------------------------------------
InitResolve ==
    \E nameSeq \in NameSeqs(FileNames, MaxBagLen), controlled \in BOOLEAN, loaded \in BOOLEAN :
        LET files == NewMap(nameSeq, 1)
        IN  /\ loaded => controlled /\ Len(files) > 0
            /\ phase = "running"
            /\ customModelFiles = files
            /\ windowFiles = Published(files)
            /\ cache = IF loaded
                       THEN LoadAll(SaveAll(<< >>, files, 1), files, 1)
                       ELSE SaveAll(<< >>, files, 1)
            /\ saveTasks = << >>
            /\ synced = (Len(files) > 0)
            /\ idb = IF Len(files) > 0 THEN Record(files) ELSE NoRecord
            /\ idbQueue = << >>
            /\ restorePending = FALSE
            /\ swControlled = controlled
            /\ resetPc = "idle"
            /\ uploads = IF Len(files) > 0 THEN 1 ELSE 0
            /\ clearedUrls = {}
            /\ last = NoRequest
            /\ modelSource = "custom"
            /\ modelConfig = RestConfig(files, "custom")
            /\ LoadAtRest
            /\ parseTasks = {}

NextResolve == \E url \in RequestUrls, failed \in BOOLEAN : Request(url, failed)

SpecResolve == InitResolve /\ [][NextResolve]_vars

\* ------------------------------------------------------------------------
\* Manifest specification: a bag has been uploaded and saved, its manifest
\* parse is in flight; parses end, the source is switched, the bag is replaced
\* once more (the bag at the start counts as upload MaxUploads - 1)
\* ------------------------------------------------------------------------
\* the contents drawn for a bag: every document for a bag with a config.json
GensOf(nameSeq) ==
    IF \E i \in 1..Len(nameSeq) : nameSeq[i] = "config.json" THEN 1..NumDocs ELSE { 1 }

InitManifest ==
    \E nameSeq \in NameSeqs(ManifestNames, MaxBagLen), source \in { "remote", "custom" } :
        \E gen \in GensOf(nameSeq) :
            LET files == NewMap(nameSeq, gen)
            IN  /\ phase = "running"
                /\ customModelFiles = files
                /\ windowFiles = Published(files)
                /\ cache = SaveAll(<< >>, files, 1)
                /\ saveTasks = << >>
                /\ synced = (Len(files) > 0)
                /\ idb = IF Len(files) > 0 THEN Record(files) ELSE NoRecord
                /\ idbQueue = << >>
                /\ restorePending = FALSE
                /\ swControlled = FALSE
                /\ resetPc = "idle"
                /\ uploads = MaxUploads - 1
                /\ clearedUrls = {}
                /\ last = NoRequest
                /\ modelSource = source
                /\ modelConfig = NoConfig
                /\ LoadAtRest
                /\ parseTasks = IF source = "custom" /\ Len(files) > 0 /\ HasConfig(files)
                                THEN { files } ELSE {}

\* the files chosen for a replace are new ones, or ones whose config.json is
\* the document that does not parse
NextManifest ==
    \/ ParseDone
    \/ \E source \in { "remote", "custom" } : SelectSource(source)
    \/ \E nameSeq \in NameSeqs(UploadNames, MaxUploadLen) \ { << >> } :
           Upload(nameSeq, uploads + 1)
    \/ \E nameSeq \in NameSeqs(UploadNames, MaxUploadLen) \ { << >> } :
           Upload(nameSeq, NumDocs)

SpecManifest == InitManifest /\ [][NextManifest]_vars

\* ------------------------------------------------------------------------
\* Replace specification: replace(B) has been performed and has settled
\* (saved, persisted, parsed); the user picks the same files again
\* ------------------------------------------------------------------------
KeysOf(files) == [i \in 1..Len(files) |-> files[i].name]

\* what is observable of the store once replace(files) has settled on an
\* empty cache
Settled(files, source) ==
    [bag |-> files,
     published |-> Published(files),
     cache |-> SaveAll(<< >>, files, 1),
     record |-> Record(files),
     manifest |-> RestConfig(files, source)]

InitReplace ==
    \E nameSeq \in NameSeqs(FileNames, MaxBagLen) \ { << >> } :
        \E gen \in GensOf(nameSeq) :
            LET once == Settled(NewMap(nameSeq, gen), "custom")
            IN  /\ phase = "running"
                /\ customModelFiles = once.bag
                /\ windowFiles = once.published
                /\ cache = once.cache
                /\ saveTasks = << >>
                /\ synced = TRUE
                /\ idb = once.record
                /\ idbQueue = << >>
                /\ restorePending = FALSE
                /\ swControlled = FALSE
                /\ resetPc = "idle"
                /\ uploads = 1
                /\ clearedUrls = {}
                /\ last = NoRequest
                /\ modelSource = "custom"
                /\ modelConfig = once.manifest
                /\ LoadAtRest
                /\ parseTasks = {}

\* upload input.onchange with the files of the current bag chosen again
Reselect ==
    /\ Len(customModelFiles) > 0
    /\ Upload(KeysOf(customModelFiles), customModelFiles[1].blob.gen)

NextReplace ==
    \/ Reselect
    \/ \E i \in 1..MaxTasks : SaveOpen(i)
    \/ \E i \in 1..MaxTasks : SavePut(i)
    \/ IdbApply
    \/ ParseDone

SpecReplace == InitReplace /\ [][NextReplace]_vars

\* ------------------------------------------------------------------------
\* Load specification: a bag has been uploaded, saved and parsed, the stored
\* source is either one, the worker does not control the page yet and the
\* caches next to the shared cache hold entries of earlier loads; models are
\* loaded while the bag is replaced once and offline mode is toggled
\* ------------------------------------------------------------------------
InitLoad ==
    \E nameSeq \in NameSeqs(UploadNames, MaxBagLen) \ { << >> },
       source \in { "remote", "custom" } :
        LET files == NewMap(nameSeq, 1)
        IN  /\ phase = "running"
            /\ customModelFiles = files
            /\ windowFiles = Published(files)
            /\ cache = SaveAll(<< >>, files, 1)
            /\ saveTasks = << >>
            /\ synced = TRUE
            /\ idb = Record(files)
            /\ idbQueue = << >>
            /\ restorePending = FALSE
            /\ swControlled = FALSE
            /\ resetPc = "idle"
            /\ uploads = MaxUploads - 1
            /\ clearedUrls = {}
            /\ last = NoRequest
            /\ modelSource = source
            /\ modelConfig = RestConfig(files, source)
            /\ parseTasks = {}
            /\ isOfflineMode = TRUE
            /\ isModelLoading = FALSE
            /\ errorMessage = ""
            /\ translator = NoTranslator
            /\ loadedModelId = ""
            /\ env = InitialEnv
            /\ libCaches = [n \in LibCacheNames |-> LibKeys]
            /\ loadTasks = << >>
            /\ lastLoad = NoLoad

NextLoad ==
    \/ LoadCall
    \/ \E i \in 1..MaxLoads : LoadReady(i)
    \/ \E i \in 1..MaxLoads, ok \in BOOLEAN : LoadPurge(i, ok)
    \/ \E i \in 1..MaxLoads : LoadSave(i)
    \/ \E i \in 1..MaxLoads : LoadSaveFail(i)
    \/ \E i \in 1..MaxLoads : PipelineRequest(i)
    \/ \E i \in 1..MaxLoads, ok \in BOOLEAN, m \in FailureMessages : PipelineDone(i, ok, m)
    \/ \E nameSeq \in NameSeqs(UploadNames, MaxUploadLen) \ { << >> } :
           Upload(nameSeq, uploads + 1)
    \/ \E i \in 1..MaxTasks : SaveOpen(i)
    \/ \E i \in 1..MaxTasks : SavePut(i)
    \/ IdbApply
    \/ ParseDone
    \/ ToggleOffline
    \/ ClaimClients

SpecLoad == InitLoad /\ [][NextLoad]_vars

\* ------------------------------------------------------------------------
\* Switch specification: a bag with a configuration document has been
\* uploaded, saved and parsed; the source is switched, models are loaded from
\* the panels and from the translate path, and the loading toast is dismissed
\* ------------------------------------------------------------------------
InitSwitch ==
    \E source \in { "remote", "custom" } :
        LET files == NewMap(<< "config.json" >>, 1)
        IN  /\ phase = "running"
            /\ customModelFiles = files
            /\ windowFiles = Published(files)
            /\ cache = SaveAll(<< >>, files, 1)
            /\ saveTasks = << >>
            /\ synced = TRUE
            /\ idb = Record(files)
            /\ idbQueue = << >>
            /\ restorePending = FALSE
            /\ swControlled = FALSE
            /\ resetPc = "idle"
            /\ uploads = MaxUploads
            /\ clearedUrls = {}
            /\ last = NoRequest
            /\ modelSource = source
            /\ modelConfig = RestConfig(files, source)
            /\ parseTasks = {}
            /\ LoadAtRest

NextSwitch ==
    \/ LoadCall
    \/ TranslateCall
    \/ CancelLoad
    \/ \E i \in 1..MaxLoads : LoadReady(i)
    \/ \E i \in 1..MaxLoads, ok \in BOOLEAN : LoadPurge(i, ok)
    \/ \E i \in 1..MaxLoads : LoadSave(i)
    \/ \E i \in 1..MaxLoads : LoadSaveFail(i)
    \/ \E i \in 1..MaxLoads : PipelineRequest(i)
    \/ \E i \in 1..MaxLoads, ok \in BOOLEAN, m \in FailureMessages : PipelineDone(i, ok, m)
    \/ \E source \in { "remote", "custom" } : SelectSource(source)
    \/ ParseDone
    \/ ToggleOffline
    \/ ClaimClients

SpecSwitch == InitSwitch /\ [][NextSwitch]_vars

\* ------------------------------------------------------------------------
\* Persistence specification: the page starts with the custom source; bags
\* are uploaded, saved, persisted, restored at startup and removed by RESET
\* ------------------------------------------------------------------------
InitPersist == Init /\ modelSource = "custom"

NextPersist ==
    \/ Mount
    \/ Restore
    \/ \E nameSeq \in NameSeqs(UploadNames, MaxUploadLen) \ { << >> } :
           Upload(nameSeq, uploads + 1)
    \/ \E i \in 1..MaxTasks : SaveOpen(i)
    \/ \E i \in 1..MaxTasks : SavePut(i)
    \/ \E i \in 1..MaxTasks : SaveFail(i)
    \/ IdbApply
    \/ ResetClick
    \/ \E k \in 0..(MaxTasks + 2) : ResetReload(k)
    \/ ResetFail

SpecPersist == InitPersist /\ [][NextPersist]_vars

\* ------------------------------------------------------------------------
\* Properties
\* ------------------------------------------------------------------------
\* a responder answered the last request itself (it did not hand it on)
Answered(r) == r.kind \in { "hit", "miss" }

\* the blobs a responder can serve from its view of the store
WindowBlobs == { windowFiles.files[i].blob : i \in 1..Len(windowFiles.files) }
CacheBlobs == { cache[i].blob : i \in 1..Len(cache) }
CacheUrls == { cache[i].url : i \in 1..Len(cache) }

\* C1: an answer of any of the three responders that carries no stored asset
\* has status 404 and a plain-text body; an answer with status 200 carries a
\* stored asset; the dev server answers with 404 only.
C1_MissIs404 ==
    /\ \A r \in { last.window, last.worker, last.dev } :
          /\ Answered(r) /\ r.blob = NoBlob => r.status = 404 /\ r.ctype = "text/plain"
          /\ Answered(r) /\ r.status = 200 => r.blob # NoBlob
          /\ Answered(r) => r.status \in { 200, 404 }
    /\ Answered(last.dev) => last.dev.status = 404

\* all three responders answered the same request with a miss
C1_Witness ==
    /\ last.window.kind = "miss"
    /\ last.worker.kind = "miss"
    /\ last.dev.kind = "miss"

\* C2: a request made after RESET for a URL that resolved against the removed
\* bag is answered with status 404 and is not passed to the network.
C2_ClearedIs404 ==
    last.cleared => last.via # "network" /\ last.page.status = 404

\* C3: once the saveFiles call for the current bag has ended, the shared cache
\* holds an entry for every name of the bag and no entry of an earlier bag.
C3_CacheMirrorsBag ==
    synced =>
        /\ \A n \in MapKeys(customModelFiles) : KeyUrl[n] \in CacheUrls
        /\ \A i \in 1..Len(cache) :
              \E j \in 1..Len(customModelFiles) :
                  /\ cache[i].url = KeyUrl[customModelFiles[j].name]
                  /\ cache[i].blob = customModelFiles[j].blob

\* C4: when the override (on the published bag) and the worker (on a cache
\* holding exactly that bag) both answer a request, they serve the same
\* stored asset or both report not found.
C4_RespondersAgree ==
    Answered(last.window) /\ Answered(last.worker) =>
        last.window.blob = last.worker.blob

C6_NoCrossResolution ==
    last.url # "" =>
        LET fn == Normalised[last.url].filenameOnly
            hasBoth == /\ \E n \in MapKeys(customModelFiles) :
                              KeyFacts[n].encoder /\ KeyFacts[n].onnx
                       /\ \E n \in MapKeys(customModelFiles) :
                              KeyFacts[n].decoder /\ KeyFacts[n].onnx
            Served(r) ==
                /\ r.kind = "hit"
                /\ KeyFacts[fn].encoder => KeyFacts[r.blob.name].encoder
                /\ ~KeyFacts[fn].encoder => KeyFacts[r.blob.name].decoder
        IN  /\ hasBoth
            /\ KeyFacts[fn].onnx
            /\ fn \notin MapKeys(customModelFiles)
            /\ KeyFacts[fn].encoder \/ KeyFacts[fn].decoder \/ KeyFacts[fn].merged
            => /\ Answered(last.window) => Served(last.window)
               /\ Answered(last.worker) => Served(last.worker)

C8_DecoderBeforeMerged ==
    last.url # "" =>
        LET fn == Normalised[last.url].filenameOnly
            names == MapKeys(customModelFiles)
        IN  /\ KeyFacts[fn].onnx
            /\ ~KeyFacts[fn].encoder
            /\ KeyFacts[fn].decoder \/ KeyFacts[fn].merged
            /\ fn \notin names
            /\ Normalised[last.url].filenameWithPossiblyPath \notin names
            /\ \E n \in names : KeyFacts[n].decoder /\ KeyFacts[n].onnx
            => /\ Answered(last.window) => KeyFacts[last.window.blob.name].decoder
               /\ Answered(last.worker) => KeyFacts[last.worker.blob.name].decoder

\* the request URL without its query suffix, for the URLs of the model
Unqueried == [url \in RequestUrls |-> Split(url, "?")[1]]

\* the request is recognised by all three responders as under the prefix
UnderPrefix(url) ==
    /\ Normalised[url].windowIntercepts
    /\ Normalised[url].swIntercepts
    /\ Normalised[url].pluginIntercepts

\* C9: a request under the prefix with a query suffix gets from each
\* responder the answer the same request without the suffix gets; a stored
\* name requested with a suffix is served by exact match.
C9_QueryStripped ==
    /\ last.url # ""
    /\ UnderPrefix(last.url)
    /\ Unqueried[last.url] # last.url
    /\ Unqueried[last.url] \in RequestUrls
    => /\ last.window = windowFetch(Unqueried[last.url], windowFiles)
       /\ Answered(last.worker) =>
              last.worker = swFetch(Unqueried[last.url], cache, FALSE)
       /\ last.dev = customModelNotFoundPlugin(Unqueried[last.url])
       /\ Normalised[last.url].filenameWithPossiblyPath
             = Normalised[Unqueried[last.url]].filenameWithPossiblyPath
       /\ Normalised[last.url].relativePath = Normalised[Unqueried[last.url]].relativePath

\* config.json?v=3 was served the stored config.json by both responders
C9_Witness ==
    /\ last.url = Url("/custom-model/config.json?v=3")
    /\ last.window.key = "config.json"
    /\ last.worker.key = KeyUrl["config.json"]

\* C10: the three responders recognise the same requests as under the
\* reserved prefix and derive the same relative name from them.
C10_SamePrefixTest ==
    last.url # "" =>
        /\ Normalised[last.url].windowIntercepts = Normalised[last.url].swIntercepts
        /\ Normalised[last.url].swIntercepts = Normalised[last.url].pluginIntercepts
        /\ Normalised[last.url].windowIntercepts =>
              Normalised[last.url].filenameWithPossiblyPath
                 = Normalised[last.url].relativePath

\* the content type a hit carries for a stored blob requested as fn
DeclaredOrInferred(blob, fn) ==
    IF blob.type # "" THEN blob.type
    ELSE IF KeyFacts[fn].json THEN "application/json"
    ELSE "application/octet-stream"

\* C11: a hit of the override or of the worker has status 200, the permissive
\* cross-origin header and the content type declared by the blob or, when it
\* declares none, inferred from the '.json' extension; both responders give
\* the same content type when they serve the same stored asset.
C11_HitHeaders ==
    last.url # "" =>
        /\ \A r \in { last.window, last.worker } :
              r.kind = "hit" =>
                  /\ r.status = 200
                  /\ r.cors
                  /\ r.ctype = DeclaredOrInferred(r.blob, Normalised[last.url].filenameOnly)
        /\ /\ last.window.kind = "hit"
           /\ last.worker.kind = "hit"
           /\ last.window.blob = last.worker.blob
           => last.window.ctype = last.worker.ctype

\* the path of the request URL lies beneath the reserved prefix
PathUnderPrefix == [url \in RequestUrls \cup StoreUrls |-> StartsWith(Pathname(url), PREFIX)]

PathOutsidePrefix ==
    [url \in RequestUrls \cup StoreUrls |-> ~Includes(Pathname(url), PREFIX)]

\* C13: a request whose path is outside the reserved prefix is forwarded by
\* the override, not responded to by the worker and handed to the next
\* middleware by the plugin.
C13_OutsideUntouched ==
    last.url # "" /\ PathOutsidePrefix[last.url] =>
        /\ last.window.kind = "forward"
        /\ last.worker.kind = "forward"
        /\ last.dev.kind = "forward"

\* C14: while no manifest parse is in flight, the source is custom and the
\* bag's configuration document (if any) parses, the manifest is present
\* exactly when the bag holds a config.json.
C14_ManifestIffConfig ==
    /\ parseTasks = {}
    /\ modelSource = "custom"
    /\ HasConfig(customModelFiles) => ConfigDocOf(customModelFiles).parseable
    => (modelConfig.present <=> HasConfig(customModelFiles))

\* the family markers of encoder-decoder architectures
FamilyMarkers == { "ConditionalGeneration", "MTModel", "MarianMT" }

\* the architecture tags of the documents that contain a family marker
MarkedTags ==
    { a \in { ArchChoices[i] : i \in 1..Len(ArchChoices) } :
        \E m \in FamilyMarkers : Includes(a, m) }

\* the bag installed at the start has not been replaced: a manifest in place
\* was built from its configuration document
FirstBagManifest == uploads = MaxUploads - 1 /\ HasConfig(customModelFiles)

BagKeys == [i \in 1..Len(customModelFiles) |-> customModelFiles[i].name]

\* a request for the file name resolves to an asset of the current bag
Resolves(name) == WindowResolve(customModelFiles, name, name) # 0

\* C16: every weight entry of the checklist (the manifest's required weights,
\* or the generic weights entry without a manifest) is marked satisfied
\* exactly when a request for its file name resolves in the same bag.
C16_ChecklistAgrees ==
    \A i \in 1..Len(WeightEntries(modelConfig)) :
        Found(BagKeys, WeightEntries(modelConfig)[i].pattern)
            <=> Resolves(WeightEntries(modelConfig)[i].pattern)

\* C17: for a bag without a configuration document (and no parse in flight)
\* the manifest is absent, the checklist's configuration entry is not
\* satisfied, and every name of the bag resolves to the asset stored under it.
C17_NoConfigDocument ==
    ~HasConfig(customModelFiles) /\ parseTasks = {} =>
        /\ ~modelConfig.present
        /\ ~Found(BagKeys, "config.json")
        /\ \A i \in 1..Len(customModelFiles) :
              WindowResolve(customModelFiles, BagKeys[i], BagKeys[i]) = i

\* every task the replaces started has ended
Quiescent == saveTasks = << >> /\ idbQueue = << >> /\ parseTasks = {}

Restored(rec) == IF rec.present THEN rec.files ELSE << >>

\* the page runs, its startup read is over, and no IndexedDB request or RESET
\* handler of the page is still in flight
PersistenceDone ==
    /\ phase = "running"
    /\ ~restorePending
    /\ idbQueue = << >>
    /\ resetPc = "idle"

\* C19: once the persistence of the last replace has completed, a process
\* start restores exactly the current bag, names and blobs, the empty bag
\* included.
C19_RoundTrip == PersistenceDone => Restored(idb) = customModelFiles

\* the page has been reloaded by the RESET handler and App is not mounted yet
ReloadedByReset == phase = "booting" /\ uploads > 0

\* C20: after RESET and the reload it issues, the startup read restores the
\* empty bag and the worker finds no entry of the cache for any store URL.
C20_ClearRemoves ==
    ReloadedByReset =>
        /\ Restored(idb) = << >>
        /\ \A url \in StoreUrls : swFetch(url, cache, FALSE).kind # "hit"

\* two worker answers that are hits come from the same upload
SameUpload(r1, r2) == r1.kind = "hit" /\ r2.kind = "hit" => r1.blob.gen = r2.blob.gen

\* C21: the worker never resolves two requests of one moment against entries
\* of different bags: its hits for the configuration document and for the
\* weights come from the same upload.
C21_NoMixedView ==
    SameUpload(swFetch(Url("/custom-model/config.json"), cache, FALSE),
               swFetch(Url("/custom-model/some/path/model.onnx"), cache, FALSE))

\* C26: a request whose path lies under the prefix is answered by the override
\* and by the worker with a hit or a 404, whatever the state of the store and
\* also when an operation inside the responder fails; it is never forwarded
\* and never left without a response.
C26_AlwaysTerminal ==
    last.url # "" /\ PathUnderPrefix[last.url] =>
        Answered(last.window) /\ Answered(last.worker)

\* C27: once every parse that was started has ended, the manifest under the
\* custom source is the one built from the current bag's parseable
\* configuration document, whatever parses were started for earlier bags.
C27_ManifestOfCurrentBag ==
    /\ parseTasks = {}
    /\ modelSource = "custom"
    /\ HasConfig(customModelFiles)
    /\ ConfigDocOf(customModelFiles).parseable
    => modelConfig = ManifestOf(ConfigDocOf(customModelFiles), customModelFiles)

\* C28: once the parse of a bag whose configuration document does not parse
\* has ended, no manifest is in place, in particular none built from an
\* earlier bag.
C28_MalformedNoManifest ==
    /\ parseTasks = {}
    /\ modelSource = "custom"
    /\ HasConfig(customModelFiles)
    /\ ~ConfigDocOf(customModelFiles).parseable
    => ~modelConfig.present

\* the tokenizer document of the bag does not parse
TokenizerMalformed(files) ==
    /\ TokenizerIndex(files) # 0
    /\ ~TokenizerDocs[files[TokenizerIndex(files)].blob.gen].parseable

\* C29: for the first bag with a parseable configuration document and a
\* tokenizer document that does not parse, the manifest is built once the
\* parse has ended, and its tokenizer field is the sentinel "Custom".
C29_TokenizerSentinel ==
    FirstBagManifest /\ TokenizerMalformed(customModelFiles) =>
        /\ ConfigDocOf(customModelFiles).parseable /\ parseTasks = {}
                /\ modelSource = "custom" => modelConfig.present
        /\ modelConfig.present => modelConfig.tokenizer = "Custom"

\* C22: a step that removes keys from a cache next to the shared cache
\* removes only keys of the page's origin whose path lies under the prefix.
C22_PurgeOnlyReserved ==
    [][\A n \in LibCacheNames :
          \A k \in libCaches[n] \ libCaches'[n] : LibKeyFacts[k].reserved]_vars

\* C23: a custom-source load whose pipeline has been invoked has attempted
\* the purge before: the purge loop ran to its end or failed and was logged.
C23_PurgeBeforePipeline ==
    \A i \in 1..Len(loadTasks) :
        loadTasks[i].source = "custom" /\ loadTasks[i].pc = "pipeline"
            => loadTasks[i].purge \in { "done", "failed" }

\* the pipeline of a custom-source load has issued its asset request after a
\* purge that failed
C23_Witness ==
    \E i \in 1..Len(loadTasks) :
        /\ loadTasks[i].source = "custom"
        /\ loadTasks[i].pc = "pipeline"
        /\ loadTasks[i].requested
        /\ loadTasks[i].purge = "failed"

\* C24: when a custom-source load has invoked the pipeline, every name of the
\* bag current at that moment had a pair in the shared cache under its
\* virtual path.
C24_BagCachedAtInvoke ==
    \A i \in 1..Len(loadTasks) :
        loadTasks[i].source = "custom" /\ loadTasks[i].pc = "pipeline"
            => loadTasks[i].bagCached

\* a load call waiting for serviceWorker.ready ends in this step
EndsAtControlCheck ==
    /\ ~swControlled
    /\ \E i \in 1..Len(loadTasks) : loadTasks[i].pc = "ready"
    /\ Len(loadTasks') < Len(loadTasks)

C30_LoadUsesCurrentBag ==
    /\ lastLoad.result = "true"
    /\ modelSource = "custom"
    /\ lastLoad.files = customModelFiles
    => translator.present /\ translator.files = customModelFiles

\* C38: a request whose path lies under the prefix, made through the page's
\* fetch while the published bag is non-empty, is answered by the override
\* with a hit or a 404; it reaches neither the worker nor the network,
\* whether or not the worker controls the page.
C38_OneResponder ==
    /\ last.url # ""
    /\ PathUnderPrefix[last.url]
    /\ windowFiles.defined
    /\ Len(windowFiles.files) > 0
    => /\ Answered(last.window)
       /\ last.via = "window"
       /\ last.page = last.window

\* the override answered with a 404 a request that the controlling worker
\* would have answered as well
C38_Witness ==
    /\ last.url # ""
    /\ PathUnderPrefix[last.url]
    /\ Len(windowFiles.files) > 0
    /\ swControlled
    /\ Answered(last.worker)
    /\ last.window.kind = "miss"
    /\ last.via = "window"

\* C39: a request whose basename does not end in '.onnx' is answered by the
\* override and by the worker with the asset stored under the requested
\* relative name or under its basename, and with a miss when neither is stored.
C39_NonOnnxExactOnly ==
    last.url # "" =>
        LET norm == Normalised[last.url]
            names == MapKeys(windowFiles.files)
        IN  /\ Answered(last.window) /\ ~KeyFacts[norm.filenameOnly].onnx =>
                  IF norm.filenameWithPossiblyPath \in names \/ norm.filenameOnly \in names
                  THEN /\ last.window.kind = "hit"
                       /\ last.window.key \in { norm.filenameWithPossiblyPath, norm.filenameOnly }
                       /\ last.window.blob.name = last.window.key
                  ELSE last.window.kind = "miss"
            /\ Answered(last.worker) /\ ~KeyFacts[norm.swFilenameOnly].onnx =>
                  IF norm.relativeKey \in CacheUrls \/ norm.filenameKey \in CacheUrls
                  THEN /\ last.worker.kind = "hit"
                       /\ last.worker.key \in { norm.relativeKey, norm.filenameKey }
                  ELSE last.worker.kind = "miss"

\* a configuration document that is not stored was requested from a bag whose
\* only file is a weight file, and both responders answered with a miss
C39_Witness ==
    /\ last.url = Url("/custom-model/tokenizer.json")
    /\ MapKeys(windowFiles.files) = { "model.onnx" }
    /\ last.window.kind = "miss"
    /\ last.worker.kind = "miss"

\* a write of the record is issued in this step
WriteIssued == Len(idbQueue') = Len(idbQueue) + 1

RestoreEndsAfterUpload ==
    /\ phase = "running" /\ phase' = "running"
    /\ restorePending /\ ~restorePending'
    /\ Len(customModelFiles) > 0

\* C35: a bag uploaded before the startup restore has ended is still the
\* in-memory bag and the published bag when the restore ends, and the restore
\* issues no write of another bag.
C35_UploadSurvivesRestore ==
    [][RestoreEndsAfterUpload =>
          /\ customModelFiles' = customModelFiles
          /\ windowFiles' = windowFiles
          /\ idbQueue' = idbQueue]_vars

\* the settings of exactly one source, as the claim names them
SettingsOfSource(e, source) ==
    IF source = "custom"
    THEN ~e.allowRemoteModels /\ e.allowLocalModels /\ e.localModelPath = Url("/")
    ELSE e.allowRemoteModels /\ ~e.allowLocalModels /\ e.localModelPath = ""

\* C31: the global settings at the moment a pipeline is invoked are those of
\* the source of the call, and they still are when that pipeline fetches the
\* model's assets: a pipeline invoked for the custom source never fetches
\* with remote models allowed.
C31_SettingsOfOneSource ==
    \A i \in 1..Len(loadTasks) :
        loadTasks[i].pc = "pipeline" =>
            /\ SettingsOfSource(loadTasks[i].invokeEnv, loadTasks[i].source)
            /\ loadTasks[i].requested =>
                   SettingsOfSource(loadTasks[i].fetchEnv, loadTasks[i].source)

\* C32: no loadOfflineModel call ends by throwing: a failure of a write to
\* the shared cache or of the purge is logged and the call returns a result.
C32_NoThrow == lastLoad.result \in { "none", "true", "false" }

\* C36: while the loading flag is set a loadOfflineModel call is in flight
\* that will clear it: no call ends and leaves the flag set.
C36_FlagHasOwner == isModelLoading => Len(loadTasks) > 0

\* C37: at most one loadOfflineModel call is past its guards at any time.
C37_OneLoadInFlight == Len(loadTasks) <= 1

\* the failure messages that contain 'JSON', and those that contain 'ONNX'
MentionsJson == { m \in FailureMessages : Includes(m, "JSON") }
MentionsOnnx == { m \in FailureMessages : Includes(m, "ONNX") }

\* the pipeline of a custom-source load fails in this step
CustomPipelineFails ==
    /\ \E i \in 1..Len(loadTasks) :
          /\ loadTasks[i].pc = "pipeline"
          /\ loadTasks[i].source = "custom"
          /\ loadTasks' = RemoveAt(loadTasks, i)
    /\ lastLoad'.result = "false"
    /\ lastLoad'.reason \in FailureMessages

====
